---- MODULE Spec2Model ----
(***************************************************************************)
(* Model of the KLayout align tool plugin                                  *)
(* (src/pymacros/align_tool_plugin.py): the feature finder, the selection  *)
(* state machine driven by the host's events, and the alignment resolver.  *)
(*                                                                         *)
(* Values.  Python's None is the empty tuple.  A point is <<x, y>>, an     *)
(* edge <<x1, y1, x2, y2>>, a box <<left, bottom, right, top>>, all in     *)
(* database units.  A scene object is <<"inst", id>> or <<"shape", id>>;   *)
(* the shape field of a selection is such an object, a box tagged          *)
(* <<"box", l, b, r, t>> (the instance pass stores the transformed         *)
(* bounding box there), or None.  An optional selection is None or the     *)
(* one-element tuple <<selection>>.                                        *)
(***************************************************************************)
EXTENDS Integers, Sequences, FiniteSets, TLC

None == <<>>

Some(v) == <<v>>

\* ------------------------------------------------------------------------
\* AlignToolState
\* ------------------------------------------------------------------------
INACTIVE == "inactive"

PENDING_SELECTION1 == "pending_selection1"

PENDING_SELECTION2 == "pending_selection2"

\* ------------------------------------------------------------------------
\* Geometry of the host library (pya.Point, pya.Edge, pya.Box), integer
\* coordinates.
\* ------------------------------------------------------------------------
Abs(n) == IF n < 0 THEN -n ELSE n

Min(a, b) == IF a < b THEN a ELSE b

Max(a, b) == IF a < b THEN b ELSE a

Point(x, y) == <<x, y>>

Edge(a, b) == <<a[1], a[2], b[1], b[2]>>

Box(l, b, r, t) == <<l, b, r, t>>

p1(e) == <<e[1], e[2]>>

p2(e) == <<e[3], e[4]>>

\* Edge.dx(), Edge.dy(): the extension of the edge, p2 - p1.
edge_dx(e) == e[3] - e[1]

edge_dy(e) == e[4] - e[2]

is_degenerate(e) == p1(e) = p2(e)

\* Edge.is_parallel: the vector product of the two directions vanishes.
is_parallel(e, f) == edge_dx(e) * edge_dy(f) - edge_dy(e) * edge_dx(f) = 0

\* Box.contains(point): the borders belong to the box.
contains(box, p) ==
    /\ box[1] <= p[1] /\ p[1] <= box[3]
    /\ box[2] <= p[2] /\ p[2] <= box[4]

\* Box.center()
center(box) == <<box[1] + (box[3] - box[1]) \div 2, box[2] + (box[4] - box[2]) \div 2>>

\* Two boxes overlap when their interiors share a point (the *_overlapping
\* iterators of the host).
overlaps(a, b) == a[1] < b[3] /\ b[1] < a[3] /\ a[2] < b[4] /\ b[2] < a[4]

\* The four edges of a box in the order of its hull, starting at the lower
\* left corner and running clockwise (pya.Edges(box), Polygon(box).each_edge).
box_edges(box) ==
    << <<box[1], box[2], box[1], box[4]>>,
       <<box[1], box[4], box[3], box[4]>>,
       <<box[3], box[4], box[3], box[2]>>,
       <<box[3], box[2], box[1], box[2]>> >>

\* Edge.clipped(box) for the edges of the scene, which are parallel to an
\* axis or degenerate: the part of the edge inside the box (borders
\* included), keeping the direction, or None.
clipped(e, box) ==
    IF is_degenerate(e)
    THEN IF contains(box, p1(e)) THEN e ELSE None
    ELSE IF edge_dy(e) = 0
    THEN LET lo == Max(Min(e[1], e[3]), box[1])
             hi == Min(Max(e[1], e[3]), box[3])
         IN  IF box[2] <= e[2] /\ e[2] <= box[4] /\ lo <= hi
             THEN IF e[1] <= e[3] THEN <<lo, e[2], hi, e[2]>> ELSE <<hi, e[2], lo, e[2]>>
             ELSE None
    ELSE LET lo == Max(Min(e[2], e[4]), box[2])
             hi == Min(Max(e[2], e[4]), box[4])
         IN  IF box[1] <= e[1] /\ e[1] <= box[3] /\ lo <= hi
             THEN IF e[2] <= e[4] THEN <<e[1], lo, e[1], hi>> ELSE <<e[1], hi, e[1], lo>>
             ELSE None

\* Edge.distance_abs(point): the distance of the point from the line through
\* the edge; 0 for a degenerate edge.  Exact for axis-parallel edges.
distance_abs(e, p) ==
    IF is_degenerate(e) THEN 0
    ELSE IF edge_dy(e) = 0 THEN Abs(p[2] - e[2])
    ELSE Abs(p[1] - e[1])

\* The square of Point.distance: the order of two distances is the order
\* of their squares.
sq_distance(p, q) == (p[1] - q[1]) * (p[1] - q[1]) + (p[2] - q[2]) * (p[2] - q[2])

\* ------------------------------------------------------------------------
\* The host's scene, as the view's iterators report it, in the coordinates
\* of the top cell.  Iteration order is the order of the sequences.
\*
\*   top cell: shape S1, text S5 (no polygon), instance I1 of cell A,
\*             instance I3 of a hidden cell H, shape S4 on a hidden layer
\*   cell A:   shape S2, instance I2 of cell B        cell B: shape S3
\*   cell H:   shape S6
\* ------------------------------------------------------------------------
oI1 == <<"inst", "I1">>

oI2 == <<"inst", "I2">>

oI3 == <<"inst", "I3">>

oS1 == <<"shape", "S1">>

oS2 == <<"shape", "S2">>

oS3 == <<"shape", "S3">>

oS4 == <<"shape", "S4">>

oS5 == <<"shape", "S5">>

oS6 == <<"shape", "S6">>

\* What top_cell.begin_instances_rec_overlapping visits: the instance, the
\* instances leading to it (iter.path()), its depth, its bounding box
\* transformed to the top cell, and whether the view hides its cell.
SceneInstances ==
    << [inst |-> oI1, path |-> <<>>,    depth |-> 0, bbox |-> <<12, 0, 20, 8>>,  hidden |-> FALSE],
       [inst |-> oI2, path |-> <<oI1>>, depth |-> 1, bbox |-> <<14, 4, 18, 8>>,  hidden |-> FALSE],
       [inst |-> oI3, path |-> <<>>,    depth |-> 0, bbox |-> <<0, 12, 4, 16>>,  hidden |-> TRUE] >>

\* What top_cell.begin_shapes_rec_overlapping visits on a layer: the shape,
\* the instances leading to its cell, its depth, and its polygon transformed
\* to the top cell (all polygons of the scene are boxes; a text has none).
SceneShapes ==
    << [shape |-> oS1, layer |-> 0, path |-> <<>>,         depth |-> 0, bbox |-> <<0, 0, 8, 8>>,    polygon |-> TRUE],
       [shape |-> oS5, layer |-> 0, path |-> <<>>,         depth |-> 0, bbox |-> <<1, 1, 3, 3>>,    polygon |-> FALSE],
       [shape |-> oS2, layer |-> 0, path |-> <<oI1>>,      depth |-> 1, bbox |-> <<12, 0, 20, 4>>,  polygon |-> TRUE],
       [shape |-> oS6, layer |-> 0, path |-> <<oI3>>,      depth |-> 1, bbox |-> <<0, 12, 4, 16>>,  polygon |-> TRUE],
       [shape |-> oS3, layer |-> 1, path |-> <<oI1, oI2>>, depth |-> 2, bbox |-> <<14, 4, 18, 8>>,  polygon |-> TRUE],
       [shape |-> oS4, layer |-> 2, path |-> <<>>,         depth |-> 0, bbox |-> <<24, 0, 28, 4>>,  polygon |-> TRUE] >>

\* view.each_layer(): the layer properties of the layer list.
SceneLayers ==
    << [visible |-> TRUE,  valid |-> TRUE,  layer_index |-> 0],
       [visible |-> TRUE,  valid |-> TRUE,  layer_index |-> 1],
       [visible |-> FALSE, valid |-> TRUE,  layer_index |-> 2],
       [visible |-> TRUE,  valid |-> TRUE,  layer_index |-> -1],
       [visible |-> TRUE,  valid |-> FALSE, layer_index |-> 3] >>

\* view.each_annotation(): a ruler with a box outline (its box), or any
\* other ruler (its points), already in database units.
SceneAnnotations ==
    << [outline_box |-> FALSE, box |-> None,            points |-> << <<10, 4>>, <<10, 12>> >>],
       [outline_box |-> TRUE,  box |-> <<22, 0, 26, 8>>, points |-> <<>>] >>

\* What a query reads of the view: whether the current top cell is hidden,
\* the hierarchy levels shown, and the scene through the view's iterators.
View(top_hidden, min_hier_levels, max_hier_levels, instances, shapes, layers, annotations) ==
    [top_hidden |-> top_hidden, min_hier_levels |-> min_hier_levels,
     max_hier_levels |-> max_hier_levels, instances |-> instances, shapes |-> shapes,
     layers |-> layers, annotations |-> annotations]

\* The view of the scene above: all levels shown, only the top level shown,
\* and the top cell hidden.
ViewConfigs ==
    { View(FALSE, 0, 3, SceneInstances, SceneShapes, SceneLayers, SceneAnnotations),
      View(FALSE, 0, 0, SceneInstances, SceneShapes, SceneLayers, SceneAnnotations),
      View(TRUE,  0, 3, SceneInstances, SceneShapes, SceneLayers, SceneAnnotations) }

\* ------------------------------------------------------------------------
\* Sequence helpers
\* ------------------------------------------------------------------------
RECURSIVE Flatten(_)
\* The concatenation of a sequence of sequences, the halves first so that
\* a thousand elements nest ten deep.
Flatten(ss) ==
    IF ss = <<>> THEN <<>>
    ELSE IF Len(ss) = 1 THEN ss[1]
    ELSE LET h == Len(ss) \div 2
         IN  Flatten(SubSeq(ss, 1, h)) \o Flatten(SubSeq(ss, h + 1, Len(ss)))

Prefix(s, n) == SubSeq(s, 1, Min(Len(s), n))

\* ------------------------------------------------------------------------
\* Host conversions
\* ------------------------------------------------------------------------
\* DPoint.to_itype(dbu): micrometres to database units, rounding half away
\* from zero.  The pointer's DPoint is given in half database units, so
\* that a position between two grid points exists.
round_half(v) == IF v >= 0 THEN (v + 1) \div 2 ELSE -((1 - v) \div 2)

to_itype(dpoint) == <<round_half(dpoint[1]), round_half(dpoint[2])>>

\* halfway(a, b) is the float a + (b - a) / 2 or b + (a - b) / 2, that is
\* (a + b) / 2; pya.Point() then takes the integer part of it.
halfway(a, b) == IF a + b >= 0 THEN (a + b) \div 2 ELSE -((-(a + b)) \div 2)

\* ------------------------------------------------------------------------
\* AlignToolSelection
\* ------------------------------------------------------------------------
AlignToolSelection(location, search_box, edge, path, shape, bbox_of_instance, layer, snap_point) ==
    [location |-> location, search_box |-> search_box, edge |-> edge, path |-> path,
     shape |-> shape, bbox_of_instance |-> bbox_of_instance, layer |-> layer,
     snap_point |-> snap_point]

\* ------------------------------------------------------------------------
\* find_nearest_edge_point
\* ------------------------------------------------------------------------
\* Mutant: a point as near as the nearest one replaces it.
RECURSIVE nearest_of_last(_, _, _)
nearest_of_last(points, location, nearest_point) ==
    IF points = <<>> THEN nearest_point
    ELSE LET point == Head(points)
         IN  IF nearest_point = None
                \/ sq_distance(point, location) <= sq_distance(nearest_point, location)
             THEN nearest_of_last(Tail(points), location, point)
             ELSE nearest_of_last(Tail(points), location, nearest_point)

RECURSIVE nearest_of(_, _, _)
\* The loop over zip(points, distances): a point replaces the nearest one
\* only when it is strictly nearer.  The initial nearest_distance,
\* 9999999999, exceeds every distance between two points with 32 bit
\* coordinates, so the first point is always taken.
nearest_of(points, location, nearest_point) ==
    IF points = <<>> THEN nearest_point
    ELSE LET point == Head(points)
         IN  IF nearest_point = None
                \/ sq_distance(point, location) < sq_distance(nearest_point, location)
             THEN nearest_of(Tail(points), location, point)
             ELSE nearest_of(Tail(points), location, nearest_point)

find_nearest_edge_point(location, edge) ==
    LET edge_center == Point(halfway(edge[1], edge[3]), halfway(edge[2], edge[4]))
        points == <<edge_center, p1(edge), p2(edge)>>
    IN  nearest_of(points, location, None)

\* ------------------------------------------------------------------------
\* visible_layer_indexes
\* ------------------------------------------------------------------------
visible_layer_indexes(view) ==
    LET Shown(lref) == lref.visible /\ lref.valid /\ lref.layer_index # -1
        refs == SelectSeq(view.layers, Shown)
    IN  [i \in 1..Len(refs) |-> refs[i].layer_index]

\* ------------------------------------------------------------------------
\* find_selection
\* ------------------------------------------------------------------------
iteration_limit == 1000

\* Mutant: a candidate of equal distance replaces the nearest one.
consider_edge_selection_last_wins(nearest, selection) ==
    LET intersection == clipped(selection.edge, nearest.search_box)
    IN  IF intersection = None THEN nearest
        ELSE IF nearest.edge = None THEN selection
        ELSE LET old_intersection == clipped(nearest.edge, nearest.search_box)
                 dist_old == distance_abs(old_intersection, nearest.location)
                 dist_new == distance_abs(intersection, nearest.location)
             IN  IF dist_new <= dist_old THEN selection ELSE nearest

\* consider_edge_selection: the nearest selection so far (its edge is None
\* as long as there is none) and a candidate.
consider_edge_selection(nearest, selection) ==
    LET intersection == clipped(selection.edge, nearest.search_box)
    IN  IF intersection = None THEN nearest
        ELSE IF nearest.edge = None THEN selection
        ELSE LET old_intersection == clipped(nearest.edge, nearest.search_box)
                 dist_old == distance_abs(old_intersection, nearest.location)
                 dist_new == distance_abs(intersection, nearest.location)
             IN  IF dist_new < dist_old THEN selection ELSE nearest

RECURSIVE consider_all(_, _)
\* The calls of consider_edge_selection in the order the passes make them.
consider_all(nearest, selections) ==
    IF selections = <<>> THEN nearest
    ELSE consider_all(consider_edge_selection(nearest, Head(selections)), Tail(selections))

min_depth(view) == Max(view.min_hier_levels - 1, 0)

max_depth(view) == Max(view.max_hier_levels - 1, 0)

\* Mutant: the pass breaks once the counter exceeds the limit.
visited_late_break(elements, search_box, view) ==
    LET Reported(el) ==
            /\ overlaps(el.bbox, search_box)
            /\ Max(view.min_hier_levels - 1, 0) <= el.depth
            /\ el.depth <= Max(view.max_hier_levels - 1, 0)
    IN  Prefix(SelectSeq(elements, Reported), iteration_limit + 1)

\* The elements an *_overlapping iterator visits, cut off by the break at
\* iteration_limit (the counter also counts hidden and polygon-less ones).
visited(elements, search_box, view) ==
    LET Reported(el) ==
            /\ overlaps(el.bbox, search_box)
            /\ min_depth(view) <= el.depth /\ el.depth <= max_depth(view)
    IN  Prefix(SelectSeq(elements, Reported), iteration_limit)

\* Mutant: the candidates of the edges of an instance's bounding box do
\* not carry the instance.
instance_candidates_without_owner(location, search_box, view) ==
    LET els == visited(view.instances, search_box, view)
        OfInst(el) ==
            IF el.hidden THEN <<>>
            ELSE LET inst_bbox_from_top == el.bbox
                     edges == box_edges(inst_bbox_from_top)
                     Reaches(e) == clipped(e, search_box) # None
                     hit == SelectSeq(edges, Reaches)
                     midpoint == center(inst_bbox_from_top)
                 IN  [i \in 1..Len(hit) |->
                        AlignToolSelection(location, search_box, hit[i], el.path,
                                           <<"box">> \o inst_bbox_from_top, None, None, None)]
                     \o << AlignToolSelection(location, search_box, Edge(midpoint, midpoint), el.path,
                                              <<"box">> \o inst_bbox_from_top, el.inst, None, midpoint) >>
    IN  IF view.max_hier_levels >= 1
        THEN Flatten([i \in 1..Len(els) |-> OfInst(els[i])])
        ELSE <<>>

\* The instance pass: per visible instance the edges of its bounding box
\* that reach into the search box, then the centre of the bounding box.
instance_candidates(location, search_box, view) ==
    LET els == visited(view.instances, search_box, view)
        OfInst(el) ==
            IF el.hidden THEN <<>>
            ELSE LET inst_bbox_from_top == el.bbox
                     edges == box_edges(inst_bbox_from_top)
                     Reaches(e) == clipped(e, search_box) # None
                     hit == SelectSeq(edges, Reaches)
                     midpoint == center(inst_bbox_from_top)
                 IN  [i \in 1..Len(hit) |->
                        AlignToolSelection(location, search_box, hit[i], el.path,
                                           <<"box">> \o inst_bbox_from_top, el.inst, None, None)]
                     \o << AlignToolSelection(location, search_box, Edge(midpoint, midpoint), el.path,
                                              <<"box">> \o inst_bbox_from_top, el.inst, None, midpoint) >>
    IN  IF view.max_hier_levels >= 1
        THEN Flatten([i \in 1..Len(els) |-> OfInst(els[i])])
        ELSE <<>>

\* The shape pass of one layer: per shape with a polygon all edges of the
\* polygon, then the centre of its bounding box.
layer_candidates(lyr, location, search_box, view) ==
    LET OnLayer(el) == el.layer = lyr
        els == visited(SelectSeq(view.shapes, OnLayer), search_box, view)
        OfShape(el) ==
            IF ~el.polygon THEN <<>>
            ELSE LET edges == box_edges(el.bbox)
                     midpoint == center(el.bbox)
                 IN  [i \in 1..Len(edges) |->
                        AlignToolSelection(location, search_box, edges[i], el.path,
                                           el.shape, None, Some(lyr), None)]
                     \o << AlignToolSelection(location, search_box, Edge(midpoint, midpoint), el.path,
                                              el.shape, None, None, midpoint) >>
    IN  Flatten([i \in 1..Len(els) |-> OfShape(els[i])])

shape_candidates(location, search_box, view) ==
    LET lyrs == visible_layer_indexes(view)
    IN  IF view.max_hier_levels >= 1
        THEN Flatten([i \in 1..Len(lyrs) |-> layer_candidates(lyrs[i], location, search_box, view)])
        ELSE <<>>

\* The annotation pass: the edges of a box outline that reach into the
\* search box, or the points of any other ruler that lie in it.
ruler_candidates(location, search_box, view) ==
    LET OfAnnotation(a) ==
            LET edges == IF a.outline_box THEN box_edges(a.box) ELSE <<>>
                points == IF a.outline_box THEN <<>> ELSE a.points
                Reaches(e) == clipped(e, search_box) # None
                Inside(p) == contains(search_box, p)
                hit == SelectSeq(edges, Reaches)
                in == SelectSeq(points, Inside)
            IN  [i \in 1..Len(hit) |->
                    AlignToolSelection(location, search_box, hit[i], <<>>, None, None, None, None)]
                \o [i \in 1..Len(in) |->
                    AlignToolSelection(location, search_box, Edge(in[i], in[i]), <<>>, None, None, None, in[i])]
    IN  Flatten([i \in 1..Len(view.annotations) |-> OfAnnotation(view.annotations[i])])

\* Mutant: the nearest edge point becomes the snap point wherever it lies.
find_selection_always_snaps(dpoint, max_distance, consider_rulers, view) ==
    LET location == to_itype(dpoint)
        search_box == Box(location[1] - max_distance, location[2] - max_distance,
                          location[1] + max_distance, location[2] + max_distance)
        nearest0 == AlignToolSelection(location, search_box, None, <<>>, None, None, None, None)
        candidates == instance_candidates(location, search_box, view)
                      \o shape_candidates(location, search_box, view)
                      \o (IF consider_rulers THEN ruler_candidates(location, search_box, view) ELSE <<>>)
        nearest == consider_all(nearest0, candidates)
        nearest_point == find_nearest_edge_point(location, nearest.edge)
    IN  IF view.top_hidden THEN None
        ELSE IF nearest.edge = None THEN None
        ELSE Some([nearest EXCEPT !.snap_point = nearest_point])

\* find_selection: None, or Some(selection).
find_selection(dpoint, max_distance, consider_rulers, view) ==
    LET location == to_itype(dpoint)
        search_box == Box(location[1] - max_distance, location[2] - max_distance,
                          location[1] + max_distance, location[2] + max_distance)
        nearest0 == AlignToolSelection(location, search_box, None, <<>>, None, None, None, None)
        candidates == instance_candidates(location, search_box, view)
                      \o shape_candidates(location, search_box, view)
                      \o (IF consider_rulers THEN ruler_candidates(location, search_box, view) ELSE <<>>)
        nearest == consider_all(nearest0, candidates)
        nearest_point == find_nearest_edge_point(location, nearest.edge)
    IN  IF view.top_hidden THEN None
        ELSE IF nearest.edge = None THEN None
        ELSE IF contains(search_box, nearest_point)
        THEN Some([nearest EXCEPT !.snap_point = nearest_point])
        ELSE Some(nearest)

\* ------------------------------------------------------------------------
\* State
\* ------------------------------------------------------------------------
VARIABLES
    state,                 \* AlignToolPlugin._state
    pre_selected_objects,  \* AlignToolPlugin._pre_selected_objects
    selection1,            \* AlignToolPlugin._selection1: None or Some(selection)
    markers_selection1,    \* the markers shown for the source
    markers_selection2,    \* the markers shown for the target
    preview_selection1,    \* None or Some(selection)
    preview_selection2,    \* None or Some(selection)
    setupDock,             \* "none" (not created yet), "shown" or "hidden"
    selected,              \* host: view.each_object_selected()
    active,                \* host: the tool is the mode of the view
    txOpen,                \* host: transactions begun and not yet committed
    event,                 \* the event handled last and what its handler returned
    calls,                 \* the host calls the last handler made, in order
    commits,               \* the commit_align invocations of the last handler
    activation,            \* history: the last call of activated()
    query,                 \* the arguments of a function called on its own, or None
    found                  \* what that function returned: <<>> or <<result>>

vars == <<state, pre_selected_objects, selection1, markers_selection1, markers_selection2,
          preview_selection1, preview_selection2, setupDock, selected, active, txOpen,
          event, calls, commits, activation, query, found>>

\* The plugin and the host it acts on as one value, so that a handler is a
\* function from values to values and handlers compose.
World ==
    [state |-> state, pre_selected_objects |-> pre_selected_objects, selection1 |-> selection1,
     markers_selection1 |-> markers_selection1, markers_selection2 |-> markers_selection2,
     preview_selection1 |-> preview_selection1, preview_selection2 |-> preview_selection2,
     setupDock |-> setupDock, active |-> active, txOpen |-> txOpen,
     calls |-> <<>>, commits |-> <<>>, ret |-> "None"]

\* ------------------------------------------------------------------------
\* Inputs
\* ------------------------------------------------------------------------
\* The largest search distance viewport_adjust(20) yields at the zoom
\* levels considered.
MaxSearchDistance == 1

SearchDistances == 1..MaxSearchDistance

\* Pointer positions (half database units): on and between the features
\* of the scene, and far from all of them.
DPoints ==
    { <<0, 4>>, <<4, 16>>, <<8, 8>>, <<7, 8>>, <<24, 4>>, <<32, 12>>,
      <<20, 8>>, <<44, 4>>, <<60, 60>> }

\* Mouse button masks: left, right, middle, and left with Shift held.
Buttons == {8, 16, 32, 9}

\* What view.each_object_selected() can report: nothing, a shape, or an
\* instance and a shape.
Selections ==
    { <<>>,
      << [is_cell_inst |-> FALSE, inst |-> None, shape |-> oS1] >>,
      << [is_cell_inst |-> TRUE, inst |-> oI1, shape |-> None],
         [is_cell_inst |-> FALSE, inst |-> None, shape |-> oS6] >> }

\* int(drc_tech_grid_um() / dbu) for the technologies considered.
Grids == {1, 4}

\* ------------------------------------------------------------------------
\* selected_objects
\* ------------------------------------------------------------------------
selected_objects(sel) ==
    LET Of(o) == IF o.is_cell_inst THEN <<o.inst>>
                 ELSE IF o.shape # None THEN <<o.shape>>
                 ELSE <<>>
    IN  Flatten([i \in 1..Len(sel) |-> Of(sel[i])])

\* ------------------------------------------------------------------------
\* Markers
\* ------------------------------------------------------------------------
\* Mutant: the markers of the source are destroyed, its preview is kept.
_clear_markers_selection1_keeps_preview(w) ==
    [w EXCEPT !.markers_selection1 = <<>>]

_clear_markers_selection1(w) ==
    [w EXCEPT !.markers_selection1 = <<>>, !.preview_selection1 = None]

\* Mutant: the markers of the target are destroyed, its preview is kept.
_clear_markers_selection2_keeps_preview(w) ==
    [w EXCEPT !.markers_selection2 = <<>>]

_clear_markers_selection2(w) ==
    [w EXCEPT !.markers_selection2 = <<>>, !.preview_selection2 = None]

_clear_all_markers(w) == _clear_markers_selection2(_clear_markers_selection1(w))

\* preview_markers_for_selection: the edge, a box around the snap point if
\* there is one (given by its centre), and the search box.
preview_markers_for_selection(selection) ==
    << [line_style |-> 0, line_width |-> 2, dither_pattern |-> 2, shape |-> selection.edge] >>
    \o (IF selection.snap_point # None
        THEN << [line_style |-> 1, line_width |-> 2, dither_pattern |-> 0,
                 shape |-> selection.snap_point] >>
        ELSE <<>>)
    \o << [line_style |-> 2, line_width |-> 1, dither_pattern |-> -1,
           shape |-> selection.search_box] >>

\* ------------------------------------------------------------------------
\* activated, deactivated, deactivate
\* ------------------------------------------------------------------------
\* Mutant: an activation that finds a committed source resumes with the
\* target pending.
activated_resumes(w, view_is_visible, sel) ==
    IF ~view_is_visible THEN w
    ELSE [w EXCEPT !.setupDock = "shown",
                   !.calls = @ \o << <<"defer", "cm_edit_options">> >>,
                   !.pre_selected_objects = selected_objects(sel),
                   !.state = IF w.selection1 # None THEN PENDING_SELECTION2
                             ELSE PENDING_SELECTION1]

activated(w, view_is_visible, sel) ==
    IF ~view_is_visible THEN w
    ELSE [w EXCEPT !.setupDock = "shown",
                   !.calls = @ \o << <<"defer", "cm_edit_options">> >>,
                   !.pre_selected_objects = selected_objects(sel),
                   !.state = PENDING_SELECTION1]

\* Mutant: the mouse is not released and the markers stay.
deactivated_half(w) ==
    [w EXCEPT !.state = INACTIVE, !.pre_selected_objects = <<>>,
              !.setupDock = IF @ = "none" THEN @ ELSE "hidden"]

deactivated(w) ==
    LET w1 == [w EXCEPT !.state = INACTIVE, !.pre_selected_objects = <<>>]
        w2 == _clear_all_markers(w1)
    IN  [w2 EXCEPT !.calls = @ \o << <<"ungrab_mouse">> >>,
                   !.setupDock = IF @ = "none" THEN @ ELSE "hidden"]

\* The host leaves the tool's mode: it calls deactivated().
leave_mode(w) == [deactivated(w) EXCEPT !.active = FALSE]

\* deactivate: an Escape key press is sent to the view's widget.  sendEvent
\* delivers it at once; on Escape the view returns to its default mode,
\* which deactivates the tool if it is the current mode.
deactivate(w) ==
    LET w1 == [w EXCEPT !.calls = @ \o << <<"sendEvent", "Escape">> >>]
    IN  IF w1.active THEN leave_mode(w1) ELSE w1

\* ------------------------------------------------------------------------
\* mouse_moved_event
\* ------------------------------------------------------------------------
\* Mutant: rulers are considered whenever the tool is engaged.
rulers_considered_when_engaged(st) == st # INACTIVE

\* consider_rulers of mouse_moved_event.
rulers_considered(st) == st = PENDING_SELECTION2

\* Mutant: a feature found while the tool is INACTIVE is previewed as a
\* source.
mouse_moved_event_previews_when_inactive(w, dpoint, buttons, prio, max_distance, view) ==
    IF ~prio THEN [w EXCEPT !.ret = "False"]
    ELSE
    LET \* only consider rulers to specify a destination
        consider_rulers == rulers_considered(w.state)
        selection == find_selection(dpoint, max_distance, consider_rulers, view)
        \* the query is logged with the calls
        q == [w EXCEPT !.calls = @ \o << <<"find_selection", consider_rulers>> >>]
    IN  IF selection = None
        THEN CASE q.state = INACTIVE -> [q EXCEPT !.ret = "False"]
               [] q.state = PENDING_SELECTION1 ->
                    [q EXCEPT !.calls = @ \o << <<"toolTip", "Select shape feature to align">> >>,
                              !.ret = "False"]
               [] q.state = PENDING_SELECTION2 ->
                    [q EXCEPT !.calls = @ \o << <<"toolTip", "Select shape feature to reference">> >>,
                              !.ret = "False"]
        ELSE CASE q.state \in {INACTIVE, PENDING_SELECTION1} ->
                    [_clear_markers_selection1(q) EXCEPT
                        !.markers_selection1 = preview_markers_for_selection(selection[1]),
                        !.preview_selection1 = selection,
                        !.ret = "True"]
               [] q.state = PENDING_SELECTION2 ->
                    [_clear_markers_selection2(q) EXCEPT
                        !.markers_selection2 = preview_markers_for_selection(selection[1]),
                        !.preview_selection2 = selection,
                        !.ret = "True"]

mouse_moved_event(w, dpoint, buttons, prio, max_distance, view) ==
    IF ~prio THEN [w EXCEPT !.ret = "False"]
    ELSE
    LET \* only consider rulers to specify a destination
        consider_rulers == rulers_considered(w.state)
        selection == find_selection(dpoint, max_distance, consider_rulers, view)
        \* the query is logged with the calls
        q == [w EXCEPT !.calls = @ \o << <<"find_selection", consider_rulers>> >>]
    IN  IF selection = None
        THEN CASE q.state = INACTIVE -> [q EXCEPT !.ret = "False"]
               [] q.state = PENDING_SELECTION1 ->
                    [q EXCEPT !.calls = @ \o << <<"toolTip", "Select shape feature to align">> >>,
                              !.ret = "False"]
               [] q.state = PENDING_SELECTION2 ->
                    [q EXCEPT !.calls = @ \o << <<"toolTip", "Select shape feature to reference">> >>,
                              !.ret = "False"]
        ELSE CASE q.state = INACTIVE -> [q EXCEPT !.ret = "False"]
               [] q.state = PENDING_SELECTION1 ->
                    [_clear_markers_selection1(q) EXCEPT
                        !.markers_selection1 = preview_markers_for_selection(selection[1]),
                        !.preview_selection1 = selection,
                        !.ret = "True"]
               [] q.state = PENDING_SELECTION2 ->
                    [_clear_markers_selection2(q) EXCEPT
                        !.markers_selection2 = preview_markers_for_selection(selection[1]),
                        !.preview_selection2 = selection,
                        !.ret = "True"]

\* ------------------------------------------------------------------------
\* commit_align
\* ------------------------------------------------------------------------
\* Mutant: the quotient is rounded down.
py_round_down(n, d) == n \div d

\* Python's round(n / d) for d > 0: to the nearest integer, a tie to the
\* even one.
py_round(n, d) ==
    LET q == n \div d
        r == n % d
    IN  IF 2 * r < d THEN q
        ELSE IF 2 * r > d THEN q + 1
        ELSE IF q % 2 = 0 THEN q ELSE q + 1

\* Mutant: the pre-selection is used only if the source feature names no
\* object of its own.
transformees_source_first(pre_selected, sel1) ==
    IF Len(sel1.path) >= 1 THEN <<sel1.path[1]>>
    ELSE IF sel1.bbox_of_instance # None THEN <<sel1.bbox_of_instance>>
    ELSE IF Len(pre_selected) >= 1 THEN pre_selected
    ELSE <<sel1.shape>>

\* The objects to transform.
transformees_of(pre_selected, sel1) ==
    IF Len(pre_selected) >= 1 THEN pre_selected
    ELSE IF Len(sel1.path) = 0
    THEN LET inst1 == sel1.bbox_of_instance
         IN  IF inst1 = None THEN <<sel1.shape>> ELSE <<inst1>>
    ELSE <<sel1.path[1]>>

\* Mutant: from an edge to a point the offset is taken from the point to
\* the edge.
offset_of_source_minus_point(sel1, sel2) ==
    LET is_point1 == sel1.snap_point # None
        is_edge1 == ~is_point1
        is_point2 == sel2.snap_point # None
        is_edge2 == ~is_point2
        edge1 == sel1.edge
        edge2 == sel2.edge
    IN  IF is_point1 /\ is_point2
        THEN <<sel2.snap_point[1] - sel1.snap_point[1], sel2.snap_point[2] - sel1.snap_point[2]>>
        ELSE IF is_point1 /\ is_edge2
        THEN IF edge_dy(edge2) = 0 THEN <<0, p1(edge2)[2] - sel1.snap_point[2]>>
             ELSE IF edge_dx(edge2) = 0 THEN <<p1(edge2)[1] - sel1.snap_point[1], 0>>
             ELSE <<0, 0>>
        ELSE IF is_edge1 /\ is_point2
        THEN IF edge_dy(edge1) = 0 THEN <<0, p1(edge1)[2] - sel2.snap_point[2]>>
             ELSE IF edge_dx(edge1) = 0 THEN <<p1(edge1)[1] - sel2.snap_point[1], 0>>
             ELSE <<0, 0>>
        ELSE IF is_parallel(edge1, edge2)
        THEN IF edge_dy(edge1) = 0 THEN <<0, p1(edge2)[2] - p1(edge1)[2]>>
             ELSE IF edge_dx(edge1) = 0 THEN <<p1(edge2)[1] - p1(edge1)[1], 0>>
             ELSE <<0, 0>>
        ELSE None

\* Mutant: parallel edges are aligned end point to end point, p1 to p1.
offset_of_along_the_edges(sel1, sel2) ==
    LET is_point1 == sel1.snap_point # None
        is_edge1 == ~is_point1
        is_point2 == sel2.snap_point # None
        is_edge2 == ~is_point2
        edge1 == sel1.edge
        edge2 == sel2.edge
    IN  IF is_point1 /\ is_point2
        THEN <<sel2.snap_point[1] - sel1.snap_point[1], sel2.snap_point[2] - sel1.snap_point[2]>>
        ELSE IF is_point1 /\ is_edge2
        THEN IF edge_dy(edge2) = 0 THEN <<0, p1(edge2)[2] - sel1.snap_point[2]>>
             ELSE IF edge_dx(edge2) = 0 THEN <<p1(edge2)[1] - sel1.snap_point[1], 0>>
             ELSE <<0, 0>>
        ELSE IF is_edge1 /\ is_point2
        THEN IF edge_dy(edge1) = 0 THEN <<0, sel2.snap_point[2] - p1(edge1)[2]>>
             ELSE IF edge_dx(edge1) = 0 THEN <<sel2.snap_point[1] - p1(edge1)[1], 0>>
             ELSE <<0, 0>>
        ELSE IF is_parallel(edge1, edge2)
        THEN IF edge_dy(edge1) = 0 THEN <<p1(edge2)[1] - p1(edge1)[1], p1(edge2)[2] - p1(edge1)[2]>>
             ELSE IF edge_dx(edge1) = 0 THEN <<p1(edge2)[1] - p1(edge1)[1], p1(edge2)[2] - p1(edge1)[2]>>
             ELSE <<0, 0>>
        ELSE None

\* Mutant: a diagonal edge in a mixed pair is rejected like non-parallel
\* edges.
offset_of_rejects_diagonal(sel1, sel2) ==
    LET is_point1 == sel1.snap_point # None
        is_edge1 == ~is_point1
        is_point2 == sel2.snap_point # None
        is_edge2 == ~is_point2
        edge1 == sel1.edge
        edge2 == sel2.edge
    IN  IF is_point1 /\ is_point2
        THEN <<sel2.snap_point[1] - sel1.snap_point[1], sel2.snap_point[2] - sel1.snap_point[2]>>
        ELSE IF is_point1 /\ is_edge2
        THEN IF edge_dy(edge2) = 0 THEN <<0, p1(edge2)[2] - sel1.snap_point[2]>>
             ELSE IF edge_dx(edge2) = 0 THEN <<p1(edge2)[1] - sel1.snap_point[1], 0>>
             ELSE None
        ELSE IF is_edge1 /\ is_point2
        THEN IF edge_dy(edge1) = 0 THEN <<0, sel2.snap_point[2] - p1(edge1)[2]>>
             ELSE IF edge_dx(edge1) = 0 THEN <<sel2.snap_point[1] - p1(edge1)[1], 0>>
             ELSE None
        ELSE IF is_parallel(edge1, edge2)
        THEN IF edge_dy(edge1) = 0 THEN <<0, p1(edge2)[2] - p1(edge1)[2]>>
             ELSE IF edge_dx(edge1) = 0 THEN <<p1(edge2)[1] - p1(edge1)[1], 0>>
             ELSE <<0, 0>>
        ELSE None

\* The raw offset <<dx, dy>> of the case table, or None where the edges
\* are not parallel.
offset_of(sel1, sel2) ==
    LET is_point1 == sel1.snap_point # None
        is_edge1 == ~is_point1
        is_point2 == sel2.snap_point # None
        is_edge2 == ~is_point2
        edge1 == sel1.edge
        edge2 == sel2.edge
    IN  IF is_point1 /\ is_point2
        THEN <<sel2.snap_point[1] - sel1.snap_point[1], sel2.snap_point[2] - sel1.snap_point[2]>>
        ELSE IF is_point1 /\ is_edge2
        THEN IF edge_dy(edge2) = 0 THEN <<0, p1(edge2)[2] - sel1.snap_point[2]>>
             ELSE IF edge_dx(edge2) = 0 THEN <<p1(edge2)[1] - sel1.snap_point[1], 0>>
             ELSE <<0, 0>>
        ELSE IF is_edge1 /\ is_point2
        THEN IF edge_dy(edge1) = 0 THEN <<0, sel2.snap_point[2] - p1(edge1)[2]>>
             ELSE IF edge_dx(edge1) = 0 THEN <<sel2.snap_point[1] - p1(edge1)[1], 0>>
             ELSE <<0, 0>>
        ELSE IF is_parallel(edge1, edge2)
        THEN IF edge_dy(edge1) = 0 THEN <<0, p1(edge2)[2] - p1(edge1)[2]>>
             ELSE IF edge_dx(edge1) = 0 THEN <<p1(edge2)[1] - p1(edge1)[1], 0>>
             ELSE <<0, 0>>
        ELSE None

\* t.transform(trans) can be called on an instance or a shape only.
is_object(t) == t # None /\ t[1] \in {"inst", "shape"}

\* The loop over the transformees: the transforms done before the first
\* one that raises (raise_at is the index at which the host raises, 0 for
\* none; a transformee that is no object raises by itself).
RECURSIVE transform_all(_, _, _, _)
transform_all(transformees, i, raise_at, trans) ==
    IF i > Len(transformees) THEN [done |-> <<>>, raised |-> FALSE]
    ELSE IF i = raise_at \/ ~is_object(transformees[i]) THEN [done |-> <<>>, raised |-> TRUE]
    ELSE LET rest == transform_all(transformees, i + 1, raise_at, trans)
         IN  [done |-> << <<"transform", transformees[i], trans[1], trans[2]>> >> \o rest.done,
              raised |-> rest.raised]

\* Mutant: commit and deactivate follow the loop without a finally, so a
\* raising transform skips them.
transaction_block_no_finally(w, transformees, trans, raise_at) ==
    LET w1 == [w EXCEPT !.calls = @ \o << <<"transaction", "align">> >>, !.txOpen = @ + 1]
        loop == transform_all(transformees, 1, raise_at, trans)
        w2 == [w1 EXCEPT !.calls = @ \o loop.done]
        w3 == [w2 EXCEPT !.calls = @ \o << <<"commit">> >>, !.txOpen = @ - 1]
    IN  IF loop.raised THEN [w2 EXCEPT !.ret = "raised"] ELSE deactivate(w3)

\* The transaction: view.transaction, the transforms in the try block,
\* view.commit and deactivate in the finally block.
transaction_block(w, transformees, trans, raise_at) ==
    LET w1 == [w EXCEPT !.calls = @ \o << <<"transaction", "align">> >>, !.txOpen = @ + 1]
        loop == transform_all(transformees, 1, raise_at, trans)
        w2 == [w1 EXCEPT !.calls = @ \o loop.done]
        w3 == [w2 EXCEPT !.calls = @ \o << <<"commit">> >>, !.txOpen = @ - 1]
        w4 == deactivate(w3)
    IN  [w4 EXCEPT !.ret = IF loop.raised THEN "raised" ELSE @]

\* Mutant: the warning is shown and the resolver returns, the tool stays.
reject_non_parallel_and_stay(w) ==
    [w EXCEPT !.calls = @ \o << <<"warning", "Unsupported use case">> >>]

\* The else branch of the edge-edge case: the warning, deactivate, return.
reject_non_parallel(w) ==
    deactivate([w EXCEPT !.calls = @ \o << <<"warning", "Unsupported use case">> >>])

commit_align(w, sel1, sel2, grid_dbu, raise_at) ==
    LET transformees == transformees_of(w.pre_selected_objects, sel1)
        offset == offset_of(sel1, sel2)
        \* what the invocation finds, logged with the commits
        seen == [selection1 |-> sel1, selection2 |-> sel2, state |-> w.state,
                 slot |-> w.selection1, pre_selected_objects |-> w.pre_selected_objects,
                 transformees |-> transformees, offset |-> offset]
        w0 == [w EXCEPT !.commits = @ \o <<seen>>]
    IN  IF offset = None
        THEN reject_non_parallel(w0)
        ELSE LET snapped_dx == py_round(offset[1], grid_dbu) * grid_dbu
                 snapped_dy == py_round(offset[2], grid_dbu) * grid_dbu
             IN  transaction_block(w0, transformees, <<snapped_dx, snapped_dy>>, raise_at)

\* ------------------------------------------------------------------------
\* mouse_click_event
\* ------------------------------------------------------------------------
\* Mutant: the resolver is invoked before the state and the source slot
\* are reset.
commit_target_late(w, grid_dbu, raise_at) ==
    LET sel1 == w.selection1
        sel2 == w.preview_selection2
        w1 == commit_align(w, sel1[1], sel2[1], grid_dbu, raise_at)
    IN  [w1 EXCEPT !.state = INACTIVE, !.selection1 = None]

\* The left click in PENDING_SELECTION2, from the two assignments on.
commit_target(w, grid_dbu, raise_at) ==
    LET sel1 == w.selection1
        sel2 == w.preview_selection2
        w1 == [w EXCEPT !.state = INACTIVE]
        w2 == [w1 EXCEPT !.selection1 = None]
    IN  commit_align(w2, sel1[1], sel2[1], grid_dbu, raise_at)

\* Mutant: the preview is promoted and its slot is cleared.
commit_source_clears_preview(w) ==
    LET w1 == [w EXCEPT !.selection1 = w.preview_selection1]
        w2 == _clear_markers_selection1(w1)
    IN  [w2 EXCEPT !.state = PENDING_SELECTION2]

\* Mutant: the state advances, the preview is not promoted.
commit_source_forgets(w) == [w EXCEPT !.state = PENDING_SELECTION2]

\* The left click in PENDING_SELECTION1 with a preview.
commit_source(w) ==
    LET w1 == [w EXCEPT !.selection1 = w.preview_selection1]
    IN  [w1 EXCEPT !.state = PENDING_SELECTION2]

\* Mutant: the cancel click also starts over with an empty pre-selection.
cancel_and_forget(w) ==
    LET w1 == _clear_all_markers(w)
        w2 == [w1 EXCEPT !.state = PENDING_SELECTION1, !.pre_selected_objects = <<>>]
    IN  [w2 EXCEPT !.selection1 = None]

\* Mutant: only the markers of the pending target are cleared.
cancel_target_only(w) ==
    LET w1 == _clear_markers_selection2(w)
        w2 == [w1 EXCEPT !.state = PENDING_SELECTION1]
    IN  [w2 EXCEPT !.selection1 = None]

\* The right or middle click.
cancel(w) ==
    LET w1 == _clear_all_markers(w)
        w2 == [w1 EXCEPT !.state = PENDING_SELECTION1]
    IN  [w2 EXCEPT !.selection1 = None]

\* Mutant: a left click without a preview falls through to the end of the
\* handler instead of returning.
mouse_click_event_falls_through(w, dpoint, buttons, prio, grid_dbu, raise_at) ==
    IF ~prio THEN [w EXCEPT !.ret = "False"]
    ELSE IF buttons = 8
    THEN CASE w.state = INACTIVE -> [w EXCEPT !.ret = "False"]
           [] w.state = PENDING_SELECTION1 ->
                IF w.preview_selection1 = None THEN [w EXCEPT !.ret = "True"]
                ELSE [commit_source(w) EXCEPT !.ret = "True"]
           [] w.state = PENDING_SELECTION2 ->
                IF w.preview_selection2 = None THEN [w EXCEPT !.ret = "True"]
                ELSE commit_target([w EXCEPT !.ret = "True"], grid_dbu, raise_at)
    ELSE IF buttons \in {16, 32}
    THEN [cancel(w) EXCEPT !.ret = "True"]
    ELSE [w EXCEPT !.ret = "True"]

mouse_click_event(w, dpoint, buttons, prio, grid_dbu, raise_at) ==
    IF ~prio THEN [w EXCEPT !.ret = "False"]
    ELSE IF buttons = 8
    THEN CASE w.state = INACTIVE -> [w EXCEPT !.ret = "False"]
           [] w.state = PENDING_SELECTION1 ->
                IF w.preview_selection1 = None THEN [w EXCEPT !.ret = "False"]
                ELSE [commit_source(w) EXCEPT !.ret = "True"]
           [] w.state = PENDING_SELECTION2 ->
                IF w.preview_selection2 = None THEN [w EXCEPT !.ret = "False"]
                ELSE LET w1 == commit_target([w EXCEPT !.ret = "True"], grid_dbu, raise_at)
                     IN  w1
    ELSE IF buttons \in {16, 32}
    THEN [cancel(w) EXCEPT !.ret = "True"]
    ELSE [w EXCEPT !.ret = "True"]

\* ------------------------------------------------------------------------
\* The events of the host
\* ------------------------------------------------------------------------
Assign(w) ==
    /\ state' = w.state
    /\ pre_selected_objects' = w.pre_selected_objects
    /\ selection1' = w.selection1
    /\ markers_selection1' = w.markers_selection1
    /\ markers_selection2' = w.markers_selection2
    /\ preview_selection1' = w.preview_selection1
    /\ preview_selection2' = w.preview_selection2
    /\ setupDock' = w.setupDock
    /\ active' = w.active
    /\ txOpen' = w.txOpen
    /\ calls' = w.calls
    /\ commits' = w.commits

Handled(name, buttons, prio, w) ==
    event' = [name |-> name, from |-> state, buttons |-> buttons, prio |-> prio, ret |-> w.ret]

Init ==
    /\ state = INACTIVE
    /\ pre_selected_objects = <<>>
    /\ selection1 = None
    /\ markers_selection1 = <<>>
    /\ markers_selection2 = <<>>
    /\ preview_selection1 = None
    /\ preview_selection2 = None
    /\ setupDock = "none"
    /\ selected \in Selections
    /\ active = FALSE
    /\ txOpen = 0
    /\ event = [name |-> "init", from |-> INACTIVE, buttons |-> 0, prio |-> FALSE, ret |-> "None"]
    /\ calls = <<>>
    /\ commits = <<>>
    /\ activation = [visible |-> FALSE, selection |-> <<>>]
    /\ query = None
    /\ found = <<>>

\* The user selects the tool: the host calls activated() of the view's
\* plugin, whether the view is visible or not.
Activated ==
    /\ ~active
    /\ \E view_is_visible \in BOOLEAN :
          LET w == activated(World, view_is_visible, selected)
          IN  /\ Assign([w EXCEPT !.active = TRUE])
              /\ Handled("activated", 0, FALSE, w)
              /\ activation' = [visible |-> view_is_visible, selection |-> selected_objects(selected)]
    /\ UNCHANGED <<selected, query, found>>

\* The user selects another tool: the host calls deactivated().
Deactivated ==
    /\ active
    /\ LET w == leave_mode(World)
       IN  Assign(w) /\ Handled("deactivated", 0, FALSE, w)
    /\ UNCHANGED <<selected, activation, query, found>>

\* The pointer moves.  The tool has input priority only while it is the
\* mode of the view; without priority the handler reads none of its
\* arguments, so one position stands for all.
MouseMoved ==
    /\ \E prio \in BOOLEAN :
          /\ prio => active
          /\ \E dpoint \in (IF prio THEN DPoints ELSE {<<0, 0>>}),
                max_distance \in (IF prio THEN SearchDistances ELSE {1}),
                view \in (IF prio THEN ViewConfigs ELSE {CHOOSE v \in ViewConfigs : TRUE}) :
                LET w == mouse_moved_event(World, dpoint, 0, prio, max_distance, view)
                IN  Assign(w) /\ Handled("mouse_moved_event", 0, prio, w)
    /\ UNCHANGED <<selected, activation, query, found>>

\* The click reaches commit_align: only then the technology's grid and the
\* host's transform() are consulted.
Resolves(buttons, prio) ==
    prio /\ buttons = 8 /\ state = PENDING_SELECTION2 /\ preview_selection2 # None

\* A mouse button is clicked.  raise_at is the transformee at which the
\* host's transform() raises, 0 if at none.  Without priority the handler
\* reads none of its arguments.
MouseClick ==
    /\ \E prio \in BOOLEAN : \E buttons \in (IF prio THEN Buttons ELSE {8}) :
          /\ prio => active
          /\ \E grid_dbu \in (IF Resolves(buttons, prio) THEN Grids ELSE {1}),
                raise_at \in (IF Resolves(buttons, prio)
                              THEN 0..Len(transformees_of(pre_selected_objects, selection1[1]))
                              ELSE {0}) :
                LET w == mouse_click_event(World, <<0, 0>>, buttons, prio, grid_dbu, raise_at)
                IN  Assign(w) /\ Handled("mouse_click_event", buttons, prio, w)
    /\ UNCHANGED <<selected, activation, query, found>>

\* The selection of the view changes.
HostSelect ==
    /\ \E sel \in Selections : sel # selected /\ selected' = sel
    /\ event' = [name |-> "select", from |-> state, buttons |-> 0, prio |-> FALSE, ret |-> "None"]
    /\ calls' = <<>>
    /\ commits' = <<>>
    /\ UNCHANGED <<state, pre_selected_objects, selection1, markers_selection1, markers_selection2,
                   preview_selection1, preview_selection2, setupDock, active, txOpen, activation,
                   query, found>>

Next == Activated \/ Deactivated \/ MouseMoved \/ MouseClick \/ HostSelect

Spec == Init /\ [][Next]_vars

\* ------------------------------------------------------------------------
\* find_selection called on its own, on the scene above and on dense scenes
\* ------------------------------------------------------------------------
\* The plugin as __init__ leaves it, with nothing selected in the view.
Constructed ==
    /\ state = INACTIVE
    /\ pre_selected_objects = <<>>
    /\ selection1 = None
    /\ markers_selection1 = <<>>
    /\ markers_selection2 = <<>>
    /\ preview_selection1 = None
    /\ preview_selection2 = None
    /\ setupDock = "none"
    /\ selected = <<>>
    /\ active = FALSE
    /\ txOpen = 0
    /\ event = [name |-> "init", from |-> INACTIVE, buttons |-> 0, prio |-> FALSE, ret |-> "None"]
    /\ calls = <<>>
    /\ commits = <<>>
    /\ activation = [visible |-> FALSE, selection |-> <<>>]

\* A dense scene, all of it over the box (0,0)-(8,8) of the top cell: ni
\* instances of the hidden cell followed by the instance I1; on layer 0
\* ns texts followed by the shape S1; on layer 1 the shape S3.
DenseView(ni, ns) ==
    LET at == <<0, 0, 8, 8>>
        instances == [i \in 1..(ni + 1) |->
                        IF i <= ni
                        THEN [inst |-> oI3, path |-> <<>>, depth |-> 0, bbox |-> at, hidden |-> TRUE]
                        ELSE [inst |-> oI1, path |-> <<>>, depth |-> 0, bbox |-> at, hidden |-> FALSE]]
        shapes == [i \in 1..(ns + 2) |->
                        IF i <= ns
                        THEN [shape |-> oS5, layer |-> 0, path |-> <<>>, depth |-> 0, bbox |-> at, polygon |-> FALSE]
                        ELSE IF i = ns + 1
                        THEN [shape |-> oS1, layer |-> 0, path |-> <<>>, depth |-> 0, bbox |-> at, polygon |-> TRUE]
                        ELSE [shape |-> oS3, layer |-> 1, path |-> <<>>, depth |-> 0, bbox |-> at, polygon |-> TRUE]]
    IN  View(FALSE, 0, 3, instances, shapes, SceneLayers, <<>>)

\* The numbers of elements ahead of the visible one: it is the last one
\* the pass visits, or the first one it does not.
DenseCounts == {iteration_limit - 1, iteration_limit}

FinderViews == ViewConfigs \cup {DenseView(ni, ns) : ni \in DenseCounts, ns \in DenseCounts}

\* The pointer positions above and one on a corner of the shape S1.
FinderDPoints == DPoints \cup { <<0, 0>> }

FinderInit ==
    /\ Constructed
    /\ query \in [dpoint : FinderDPoints, max_distance : SearchDistances,
                   consider_rulers : BOOLEAN, view : FinderViews]
    /\ found = <<>>

FindSelection ==
    /\ found = <<>>
    /\ found' = <<find_selection(query.dpoint, query.max_distance, query.consider_rulers, query.view)>>
    /\ UNCHANGED <<state, pre_selected_objects, selection1, markers_selection1, markers_selection2,
                   preview_selection1, preview_selection2, setupDock, selected, active, txOpen,
                   event, calls, commits, activation, query>>

FinderNext == FindSelection

FinderSpec == FinderInit /\ [][FinderNext]_vars

\* ------------------------------------------------------------------------
\* find_nearest_edge_point called on its own
\* ------------------------------------------------------------------------
\* The largest coordinate of the locations and edges it is called with.
MaxCoord == 3

Coords == -1..MaxCoord

NearestInit ==
    /\ Constructed
    /\ query \in [location : Coords \X Coords, edge : Coords \X Coords \X Coords \X Coords]
    /\ found = <<>>

FindNearestEdgePoint ==
    /\ found = <<>>
    /\ found' = <<find_nearest_edge_point(query.location, query.edge)>>
    /\ UNCHANGED <<state, pre_selected_objects, selection1, markers_selection1, markers_selection2,
                   preview_selection1, preview_selection2, setupDock, selected, active, txOpen,
                   event, calls, commits, activation, query>>

NearestNext == FindNearestEdgePoint

NearestSpec == NearestInit /\ [][NearestNext]_vars

\* ------------------------------------------------------------------------
\* commit_align on features of any orientation: the left click that
\* commits the target, from the states in which a source is committed and
\* a target is previewed
\* ------------------------------------------------------------------------
\* A point-like feature: what find_selection returns with a snap point.
PointFeature(p) ==
    AlignToolSelection(p, Box(p[1] - 1, p[2] - 1, p[1] + 1, p[2] + 1), Edge(p, p),
                       <<>>, oS1, None, None, p)

\* An edge-like feature: what find_selection returns for a location on
\* the edge a quarter of the way from p1 to p2, out of reach of the end
\* points and of the centre.
EdgeFeature(e) ==
    LET location == <<e[1] + edge_dx(e) \div 4, e[2] + edge_dy(e) \div 4>>
    IN  AlignToolSelection(location,
                           Box(location[1] - 1, location[2] - 1, location[1] + 1, location[2] + 1),
                           e, <<>>, oS1, None, Some(0), None)

ResolverPoints == { <<10, 10>>, <<13, 17>>, <<4, 4>> }

\* Horizontal, vertical and diagonal edges, of both directions and of
\* different lengths.
ResolverEdges ==
    { <<0, 10, 20, 10>>, <<16, 4, 0, 4>>, <<10, 0, 10, 8>>, <<25, 20, 25, 4>>,
      <<0, 0, 8, 8>>, <<4, 0, 12, 8>>, <<0, 8, 8, 0>> }

ResolverFeatures ==
    {PointFeature(p) : p \in ResolverPoints} \cup {EdgeFeature(e) : e \in ResolverEdges}

ResolverGrids == Grids \cup {5}

ResolverInit ==
    /\ state = PENDING_SELECTION2
    /\ pre_selected_objects = <<>>
    /\ selection1 \in {Some(f) : f \in ResolverFeatures}
    /\ preview_selection2 \in {Some(f) : f \in ResolverFeatures}
    /\ preview_selection1 = selection1
    /\ markers_selection1 = preview_markers_for_selection(selection1[1])
    /\ markers_selection2 = preview_markers_for_selection(preview_selection2[1])
    /\ setupDock = "shown"
    /\ selected = <<>>
    /\ active = TRUE
    /\ txOpen = 0
    /\ event = [name |-> "mouse_moved_event", from |-> PENDING_SELECTION2, buttons |-> 0,
                prio |-> TRUE, ret |-> "True"]
    /\ calls = << <<"find_selection", TRUE>> >>
    /\ commits = <<>>
    /\ activation = [visible |-> TRUE, selection |-> <<>>]
    /\ query \in [grid_dbu : ResolverGrids]
    /\ found = <<>>

ClickTarget ==
    /\ state = PENDING_SELECTION2
    /\ LET w == mouse_click_event(World, <<0, 0>>, 8, TRUE, query.grid_dbu, 0)
       IN  Assign(w) /\ Handled("mouse_click_event", 8, TRUE, w)
    /\ UNCHANGED <<selected, activation, query, found>>

ResolverNext == ClickTarget

ResolverSpec == ResolverInit /\ [][ResolverNext]_vars

\* ------------------------------------------------------------------------
\* Properties
\* ------------------------------------------------------------------------
Range(seq) == {seq[i] : i \in 1..Len(seq)}

\* The host calls of the last handler that carry the given tag.
CallsOf(tag) == SelectSeq(calls, LAMBDA c : c[1] = tag)

NoMarkers == markers_selection1 = <<>> /\ markers_selection2 = <<>>

NoPreviews == preview_selection1 = None /\ preview_selection2 = None

\* The last event was a click with input priority and the given button,
\* delivered in state st.
Clicked(buttons, st) ==
    /\ event.name = "mouse_click_event"
    /\ event.prio
    /\ event.buttons = buttons
    /\ event.from = st

\* The same for the step being taken.
Clicking(buttons, st) ==
    /\ event'.name = "mouse_click_event"
    /\ event'.prio
    /\ event'.buttons = buttons
    /\ state = st

\* C1: a left click with priority in PENDING_SELECTION2 with a target
\* preview sets the state to INACTIVE, empties selection1 and invokes
\* commit_align exactly once, with the selection1 committed earlier and the
\* preview of the target; commit_align finds the state INACTIVE and
\* selection1 empty already.
C1_TargetCommit ==
    [][ (Clicking(8, PENDING_SELECTION2) /\ preview_selection2 # None)
        => /\ state' = INACTIVE
           /\ selection1' = None
           /\ Len(commits') = 1
           /\ commits'[1].selection1 = selection1[1]
           /\ commits'[1].selection2 = preview_selection2[1]
           /\ commits'[1].state = INACTIVE
           /\ commits'[1].slot = None ]_vars

C1_Witness ==
    /\ Clicked(8, PENDING_SELECTION2)
    /\ Len(commits) = 1
    /\ CallsOf("transform") # <<>>

\* C2: a left click with priority in PENDING_SELECTION1 with a source
\* preview makes that preview selection1 and moves to PENDING_SELECTION2;
\* commit_align is not invoked.
C2_SourceCommit ==
    [][ (Clicking(8, PENDING_SELECTION1) /\ preview_selection1 # None)
        => /\ selection1' = preview_selection1
           /\ state' = PENDING_SELECTION2
           /\ commits' = <<>>
           /\ event'.ret = "True" ]_vars

C2_Witness ==
    /\ Clicked(8, PENDING_SELECTION1)
    /\ state = PENDING_SELECTION2
    /\ selection1 # None

\* C3: after a right or middle click with priority, whatever the state it
\* came in, the state is PENDING_SELECTION1 and there are no markers, no
\* preview in either slot and no selection1.
C3_Cancel ==
    (event.name = "mouse_click_event" /\ event.prio /\ event.buttons \in {16, 32})
    => /\ state = PENDING_SELECTION1
       /\ NoMarkers
       /\ NoPreviews
       /\ selection1 = None

C3_Witness ==
    /\ Clicked(16, PENDING_SELECTION2)
    /\ state = PENDING_SELECTION1

\* C4: after deactivated(), whatever the state it came in, the state is
\* INACTIVE, the pre-selection is empty, there are no markers and no
\* previews, and the mouse has been released.
C4_Deactivated ==
    event.name = "deactivated"
    => /\ state = INACTIVE
       /\ pre_selected_objects = <<>>
       /\ NoMarkers
       /\ NoPreviews
       /\ <<"ungrab_mouse">> \in Range(calls)

C4_Witness ==
    /\ event.name = "deactivated"
    /\ event.from = PENDING_SELECTION2
    /\ state = INACTIVE

\* C5: after every call of activated() that engages the tool (the view is
\* visible) both previews are absent, selection1 is empty and both marker
\* lists are empty.
C5_ActivationClears ==
    (event.name = "activated" /\ activation.visible)
    => (NoPreviews /\ selection1 = None /\ NoMarkers)

\* C6 as claimed: whenever commit_align runs, the pre-selection it finds is
\* the host's selection at the call of activated() that began the session.
C6_CapturedAtActivation ==
    commits # <<>> => commits[1].pre_selected_objects = activation.selection

\* C6 as amended: an activated() that finds the view visible stores the
\* host's selected objects as the pre-selection; a pointer motion, a source
\* commit, a cancel click and any click that does not reach commit_align
\* leave the pre-selection as it is; and whenever commit_align runs, the
\* pre-selection it finds is the host's selection at the last activated()
\* if that found the view visible, and empty if it returned early.
C6_PreSelectionFixed ==
    [][ /\ (event'.name = "activated" /\ activation'.visible)
              => pre_selected_objects' = selected_objects(selected)
        /\ (event'.name = "mouse_moved_event" \/ (event'.name = "mouse_click_event" /\ commits' = <<>>))
              => pre_selected_objects' = pre_selected_objects
        /\ commits' # <<>>
              => commits'[1].pre_selected_objects =
                    IF activation.visible THEN activation.selection ELSE <<>> ]_vars

\* A session whose pre-selection is not what the host has selected when
\* commit_align runs.
C6_Witness ==
    /\ commits # <<>>
    /\ activation.visible
    /\ commits[1].pre_selected_objects # <<>>
    /\ commits[1].pre_selected_objects # selected_objects(selected)

\* A selection made by the annotation pass: it has no shape.
FromRuler(sel) == sel.shape = None

\* C7: neither the preview of the source nor selection1 ever comes from a
\* ruler, and find_selection is asked to consider rulers only by a pointer
\* motion in PENDING_SELECTION2.
C7_RulersOnlyAsTarget ==
    /\ preview_selection1 # None => ~FromRuler(preview_selection1[1])
    /\ selection1 # None => ~FromRuler(selection1[1])
    /\ \A i \in 1..Len(commits) : ~FromRuler(commits[i].selection1)
    /\ \A i \in 1..Len(calls) :
          (calls[i][1] = "find_selection" /\ calls[i][2]) => event.from = PENDING_SELECTION2

C7_Witness ==
    /\ state = PENDING_SELECTION2
    /\ selection1 # None
    /\ preview_selection2 # None
    /\ FromRuler(preview_selection2[1])
    /\ <<"find_selection", TRUE>> \in Range(calls)

\* C8: when commit_align has run, on whichever path it left, no transaction
\* is open: every view.transaction of the handler is followed by a
\* view.commit.
C8_TransactionClosed ==
    commits # <<>>
    => /\ txOpen = 0
       /\ Len(CallsOf("transaction")) = Len(CallsOf("commit"))
       /\ \A i \in 1..Len(calls) :
             calls[i][1] = "transaction" => \E j \in (i + 1)..Len(calls) : calls[j][1] = "commit"

\* A transform raised inside an open transaction.
C8_Witness ==
    /\ commits # <<>>
    /\ event.ret = "raised"
    /\ CallsOf("transaction") # <<>>

\* The pair commit_align was invoked with consists of two edge-like
\* selections whose edges are not parallel.
NonParallelEdges(c) ==
    /\ c.selection1.snap_point = None
    /\ c.selection2.snap_point = None
    /\ ~is_parallel(c.selection1.edge, c.selection2.edge)

\* C9: when commit_align has run on two edge-like selections with
\* non-parallel edges, exactly one warning was requested, nothing was
\* transformed, and the tool is INACTIVE with no markers and no selection1.
C9_NonParallelRejected ==
    (commits # <<>> /\ NonParallelEdges(commits[1]))
    => /\ Len(CallsOf("warning")) = 1
       /\ CallsOf("transform") = <<>>
       /\ state = INACTIVE
       /\ NoMarkers
       /\ selection1 = None

C9_Witness ==
    /\ commits # <<>>
    /\ NonParallelEdges(commits[1])
    /\ CallsOf("warning") # <<>>

\* The objects the last handler transformed, in order.
Transformed == [i \in 1..Len(CallsOf("transform")) |-> CallsOf("transform")[i][2]]

\* C10: when commit_align has run to the end of its loop, the objects it
\* transformed are the pre-selection if that is not empty; otherwise, for a
\* source with an empty path, the owning instance of a bounding-box feature
\* or else the source's shape, and for a longer path the instance path[0].
\* The target has no part in it.
C10_Transformees ==
    (commits # <<>> /\ CallsOf("commit") # <<>> /\ event.ret # "raised")
    => LET c == commits[1]
           src == c.selection1
       IN  Transformed =
              IF c.pre_selected_objects # <<>> THEN c.pre_selected_objects
              ELSE IF Len(src.path) = 0
              THEN (IF src.bbox_of_instance # None THEN <<src.bbox_of_instance>> ELSE <<src.shape>>)
              ELSE <<src.path[1]>>

\* With a pre-selection, a source feature inside an instance moves the
\* pre-selection and not the instance.
C10_Witness ==
    /\ commits # <<>>
    /\ event.ret # "raised"
    /\ Len(commits[1].selection1.path) >= 1
    /\ commits[1].pre_selected_objects # <<>>
    /\ Transformed = commits[1].pre_selected_objects

\* C15: a left click with priority in PENDING_SELECTION1 without a source
\* preview, or in PENDING_SELECTION2 without a target preview, returns
\* False and changes neither the state, selection1, the previews, the
\* markers nor the pre-selection; commit_align is not invoked.
C15_ClickWithoutPreview ==
    [][ (\/ (Clicking(8, PENDING_SELECTION1) /\ preview_selection1 = None)
         \/ (Clicking(8, PENDING_SELECTION2) /\ preview_selection2 = None))
        => /\ event'.ret = "False"
           /\ commits' = <<>>
           /\ UNCHANGED <<state, selection1, preview_selection1, preview_selection2,
                          markers_selection1, markers_selection2, pre_selected_objects>> ]_vars

\* The click came while the target was pending and nothing was previewed.
C15_Witness ==
    /\ Clicked(8, PENDING_SELECTION2)
    /\ event.ret = "False"
    /\ state = PENDING_SELECTION2
    /\ selection1 # None
    /\ preview_selection2 = None

\* C20: a query changes nothing of the plugin.  A pointer motion in
\* INACTIVE, which runs the query, a pointer motion or click without
\* priority, and a pointer motion whose query finds nothing leave the
\* state, selection1, both previews, both marker lists and the
\* pre-selection as they are and return False.
C20_QueryHasNoEffect ==
    [][ (\/ (event'.name = "mouse_moved_event" /\ (state = INACTIVE \/ ~event'.prio))
         \/ (event'.name = "mouse_moved_event" /\ \E i \in 1..Len(calls') : calls'[i][1] = "toolTip")
         \/ (event'.name = "mouse_click_event" /\ ~event'.prio))
        => /\ event'.ret = "False"
           /\ commits' = <<>>
           /\ UNCHANGED <<state, selection1, preview_selection1, preview_selection2,
                          markers_selection1, markers_selection2, pre_selected_objects>> ]_vars

\* A pointer motion with priority in INACTIVE: the query has run.
C20_Witness ==
    /\ event.name = "mouse_moved_event"
    /\ event.prio
    /\ event.from = INACTIVE
    /\ event.ret = "False"
    /\ <<"find_selection", FALSE>> \in Range(calls)
    /\ state = INACTIVE

\* The last handler showed a tool tip: its query found nothing.
FoundNothing == CallsOf("toolTip") # <<>>

\* The preview of the slot that was pending when the last event came.
PendingPreview ==
    IF event.from = PENDING_SELECTION1 THEN preview_selection1 ELSE preview_selection2

\* C21: after a pointer motion with priority in PENDING_SELECTION1 or
\* PENDING_SELECTION2 the preview of the pending slot is what the query of
\* that motion returned: absent if it found nothing, present and reported
\* as handled otherwise.
C21_PreviewRecomputed ==
    (/\ event.name = "mouse_moved_event"
     /\ event.prio
     /\ event.from \in {PENDING_SELECTION1, PENDING_SELECTION2})
    => IF FoundNothing
       THEN PendingPreview = None
       ELSE PendingPreview # None /\ event.ret = "True"

\* The last event changed the selection state.
StateChanged == event.name # "init" /\ event.from # state

\* C22 as claimed: after every change of the selection state neither slot
\* holds a preview or a marker.
C22_PreviewsDiscarded ==
    StateChanged => (NoPreviews /\ NoMarkers)

\* C22 as amended: after a change of the selection state by a target
\* commit, a cancel click, an activation or a deactivation neither slot
\* holds a preview or a marker; after a source commit the target's slot
\* holds none, and the source's slot keeps the preview that was committed
\* and its markers.
C22_PreviewsDiscardedButSource ==
    StateChanged
    => IF state = PENDING_SELECTION2
       THEN /\ preview_selection2 = None
            /\ markers_selection2 = <<>>
            /\ preview_selection1 = selection1
            /\ preview_selection1 # None
            /\ markers_selection1 = preview_markers_for_selection(selection1[1])
       ELSE NoPreviews /\ NoMarkers

\* A cancel click while a target was previewed.
C22_Witness ==
    /\ Clicked(32, PENDING_SELECTION2)
    /\ StateChanged
    /\ state = PENDING_SELECTION1
    /\ NoPreviews
    /\ NoMarkers

\* C24: while the state is PENDING_SELECTION2, selection1 is present, has
\* an edge, equals the preview of the source's slot, and the markers of
\* that slot are its markers; a previewed target has an edge; so
\* commit_align is invoked with two features that have edges.
C24_SourceHeldWhileTargetPending ==
    /\ state = PENDING_SELECTION2
          => /\ selection1 # None
             /\ selection1[1].edge # None
             /\ selection1 = preview_selection1
             /\ markers_selection1 = preview_markers_for_selection(selection1[1])
             /\ preview_selection2 # None => preview_selection2[1].edge # None
    /\ \A i \in 1..Len(commits) :
          commits[i].selection1.edge # None /\ commits[i].selection2.edge # None

\* The target is pending and previewed, the source's markers are shown.
C24_Witness ==
    /\ state = PENDING_SELECTION2
    /\ selection1 # None
    /\ selection1 = preview_selection1
    /\ markers_selection1 # <<>>
    /\ preview_selection2 # None
    /\ preview_selection2 # selection1

\* C25: PENDING_SELECTION2 is entered only by a left click with a source
\* preview in PENDING_SELECTION1; commit_align is invoked only by a left
\* click in PENDING_SELECTION2, once, and leaves that state; a cancel
\* click, an activation and a deactivation leave it too.  So every
\* invocation follows a source commit with none of these in between, and
\* at most one invocation follows each source commit.
C25_OneResolutionPerSource ==
    [][ /\ (state' = PENDING_SELECTION2 /\ state # PENDING_SELECTION2)
              => (Clicking(8, PENDING_SELECTION1) /\ preview_selection1 # None)
        /\ commits' # <<>>
              => /\ Clicking(8, PENDING_SELECTION2)
                 /\ Len(commits') = 1
                 /\ Len(CallsOf("transaction")') <= 1
                 /\ state' # PENDING_SELECTION2
        /\ (\/ event'.name \in {"activated", "deactivated"}
            \/ (event'.name = "mouse_click_event" /\ event'.prio /\ event'.buttons \in {16, 32}))
              => state' # PENDING_SELECTION2 ]_vars

\* The resolver has run on the click that committed the target, and the
\* tool has left the mode.
C25_Witness ==
    /\ Clicked(8, PENDING_SELECTION2)
    /\ Len(commits) = 1
    /\ commits[1].state = INACTIVE
    /\ state = INACTIVE
    /\ ~active

\* C26: every transformee of commit_align, and so every object it
\* transforms, is an instance or a shape of the scene, never None and
\* never a bounding box; a source that came from the bounding box of an
\* instance carries that instance, and no source has neither a shape nor
\* an instance.
C26_TransformeesAreObjects ==
    /\ \A i \in 1..Len(commits) :
          /\ commits[i].transformees # <<>>
          /\ \A k \in 1..Len(commits[i].transformees) : is_object(commits[i].transformees[k])
    /\ \A k \in 1..Len(Transformed) : is_object(Transformed[k])
    /\ selection1 # None
          => \/ is_object(selection1[1].shape)
             \/ (selection1[1].shape # None /\ is_object(selection1[1].bbox_of_instance))

\* Nothing was pre-selected and the source was an edge of the bounding
\* box of an instance of the top cell: that instance is transformed.
C26_Witness ==
    /\ commits # <<>>
    /\ commits[1].pre_selected_objects = <<>>
    /\ commits[1].selection1.shape[1] = "box"
    /\ commits[1].selection1.path = <<>>
    /\ Transformed = <<commits[1].selection1.bbox_of_instance>>
    /\ is_object(Transformed[1])

\* C27: in every state and for each of the two slots the preview is
\* absent exactly when the marker list is empty.
C27_MarkersWithPreview ==
    /\ preview_selection1 = None <=> markers_selection1 = <<>>
    /\ preview_selection2 = None <=> markers_selection2 = <<>>

\* The source is previewed with its markers, the target's slot is empty.
C27_Witness ==
    /\ state = PENDING_SELECTION1
    /\ preview_selection1 # None
    /\ markers_selection1 = preview_markers_for_selection(preview_selection1[1])
    /\ preview_selection2 = None
    /\ markers_selection2 = <<>>

\* ------------------------------------------------------------------------
\* Properties of find_selection (FinderSpec)
\* ------------------------------------------------------------------------
\* The query's location and search box in database units.
LocationOf(q) == to_itype(q.dpoint)

SearchBoxOf(q) ==
    LET l == LocationOf(q)
    IN  <<l[1] - q.max_distance, l[2] - q.max_distance, l[1] + q.max_distance, l[2] + q.max_distance>>

\* The candidates the passes hand to consider_edge_selection, in order.
CandidatesOf(q) ==
    instance_candidates(LocationOf(q), SearchBoxOf(q), q.view)
    \o shape_candidates(LocationOf(q), SearchBoxOf(q), q.view)
    \o (IF q.consider_rulers THEN ruler_candidates(LocationOf(q), SearchBoxOf(q), q.view) ELSE <<>>)

\* The clipped distance of each candidate to the location, None for a
\* candidate that is not registered: its edge does not reach into the
\* search box.
ClippedDistances(q) ==
    LET cands == CandidatesOf(q)
        box == SearchBoxOf(q)
        Of(c) == LET intersection == clipped(c.edge, box)
                 IN  IF intersection = None THEN None
                     ELSE <<distance_abs(intersection, LocationOf(q))>>
    IN  [i \in 1..Len(cands) |-> Of(cands[i])]

\* The registered candidates of minimal clipped distance, given the
\* distances.
NearestOf(dist) ==
    {i \in 1..Len(dist) :
        /\ dist[i] # None
        /\ \A j \in 1..Len(dist) : dist[j] # None => dist[i][1] <= dist[j][1]}

\* A selection without the snap point the last step of the query sets.
Feature(sel) == [sel EXCEPT !.snap_point = None]

\* C11: the query returns the earliest, in the order instance pass, shape
\* pass layer by layer, annotation pass, of the registered candidates whose
\* clipped distance to the location is minimal; it returns nothing exactly
\* when no candidate is registered.
C11_EarliestNearest ==
    (found # <<>> /\ ~query.view.top_hidden)
    => LET cands == CandidatesOf(query)
           nearest == NearestOf(ClippedDistances(query))
       IN  IF nearest = {}
           THEN found[1] = None
           ELSE LET first == CHOOSE i \in nearest : \A j \in nearest : i <= j
                IN  /\ found[1] # None
                    /\ Feature(found[1][1]) = Feature(cands[first])

\* A tie between an instance's candidate and a later shape's candidate:
\* the instance's one is returned.
C11_Witness ==
    /\ found # <<>>
    /\ ~query.view.top_hidden
    /\ found[1] # None
    /\ LET cands == CandidatesOf(query)
           nearest == NearestOf(ClippedDistances(query))
       IN  \E i \in nearest, j \in nearest :
              /\ i < j
              /\ cands[i].bbox_of_instance # None
              /\ cands[j].bbox_of_instance = None
              /\ Feature(found[1][1]) = Feature(cands[i])

\* C12: a snap point of a returned feature lies within the feature's
\* search box, and a returned feature whose nearest edge point (midpoint or
\* end point) lies outside the search box has no snap point.
C12_SnapPointContained ==
    (found # <<>> /\ found[1] # None)
    => LET sel == found[1][1]
       IN  /\ sel.snap_point # None => contains(sel.search_box, sel.snap_point)
           /\ ~contains(sel.search_box, find_nearest_edge_point(sel.location, sel.edge))
                 => sel.snap_point = None

\* An edge whose end point is in reach: it becomes the snap point.
C12_Witness ==
    /\ found # <<>>
    /\ found[1] # None
    /\ ~is_degenerate(found[1][1].edge)
    /\ found[1][1].snap_point = p1(found[1][1].edge)
    /\ contains(found[1][1].search_box, found[1][1].snap_point)

\* The elements of a pass that overlap the query's search box at the
\* hierarchy levels shown, in the order of the iteration.
OverlappingOf(elements, q) ==
    SelectSeq(elements, LAMBDA el :
        /\ overlaps(el.bbox, SearchBoxOf(q))
        /\ Max(q.view.min_hier_levels - 1, 0) <= el.depth
        /\ el.depth <= Max(q.view.max_hier_levels - 1, 0))

\* The query's view with every pass cut down to the first 1000 elements
\* that overlap the search box: the instances, and the shapes layer by
\* layer.
FirstThousand(q) ==
    LET OnLayer(lyr) == SelectSeq(q.view.shapes, LAMBDA el : el.layer = lyr)
        lyrs == [i \in 1..Len(q.view.layers) |-> q.view.layers[i].layer_index]
    IN  [q.view EXCEPT
            !.instances = Prefix(OverlappingOf(@, q), 1000),
            !.shapes = Flatten([i \in 1..Len(lyrs) |-> Prefix(OverlappingOf(OnLayer(lyrs[i]), q), 1000)])]

\* C14: the instance pass and the shape pass of each layer visit at most
\* 1000 elements each, counted from the start of the pass; the query
\* returns what it returns on the scene cut down to the first 1000
\* overlapping elements of every pass, a result if that scene has a
\* candidate.
C14_IterationCap ==
    found # <<>>
    => found[1] = find_selection(query.dpoint, query.max_distance, query.consider_rulers,
                                 FirstThousand(query))

\* The instance pass is cut off before its only visible instance; the
\* shape pass counts from zero again and returns the shape S1, the 1000th
\* element of layer 0.
C14_Witness ==
    /\ found # <<>>
    /\ found[1] # None
    /\ Len(OverlappingOf(query.view.instances, query)) > 1000
    /\ Len(OverlappingOf(SelectSeq(query.view.shapes, LAMBDA el : el.layer = 0), query)) = 1000
    /\ found[1][1].shape = oS1

\* ------------------------------------------------------------------------
\* Properties of find_nearest_edge_point (NearestSpec)
\* ------------------------------------------------------------------------
\* The three points of an edge in the order they are compared: the centre
\* (on the database grid, rounded towards zero), p1, p2.
EdgePoints(e) == << <<halfway(e[1], e[3]), halfway(e[2], e[4])>>, p1(e), p2(e) >>

\* C13: the point returned is the first of centre, p1, p2 that is as near
\* to the location as any of the three; so the centre wins a tie with an
\* end point and p1 wins a tie with p2.
C13_MidpointPriority ==
    found # <<>>
    => LET pts == EdgePoints(query.edge)
           d == [i \in 1..3 |-> sq_distance(pts[i], query.location)]
           first == CHOOSE i \in 1..3 :
                       /\ \A j \in 1..3 : d[i] <= d[j]
                       /\ \A j \in 1..(i - 1) : d[j] > d[i]
       IN  found[1] = pts[first]

\* The location is as far from the centre as from an end point and
\* farther from the other: the centre is returned.
C13_Witness ==
    /\ found # <<>>
    /\ LET pts == EdgePoints(query.edge)
           d == [i \in 1..3 |-> sq_distance(pts[i], query.location)]
       IN  /\ pts[1] # pts[2]
           /\ d[1] = d[2]
           /\ d[1] < d[3]
           /\ d[1] > 0
           /\ found[1] = pts[1]

\* ------------------------------------------------------------------------
\* Properties of commit_align (ResolverSpec)
\* ------------------------------------------------------------------------
IsPoint(sel) == sel.snap_point # None

IsEdge(sel) == sel.snap_point = None

\* The translations the last handler applied, as <<dx, dy>>.
Applied == [i \in 1..Len(CallsOf("transform")) |->
                <<CallsOf("transform")[i][3], CallsOf("transform")[i][4]>>]

\* v is the multiple of grid nearest to raw, or one of the two nearest.
SnappedTo(v, raw, grid) == v % grid = 0 /\ 2 * Abs(v - raw) <= grid

\* C16: for a point-like source and a point-like target the raw offset is
\* the target's snap point minus the source's, and each component of the
\* translation applied is a multiple of the grid nearest to the raw one.
C16_PointToPoint ==
    (commits # <<>> /\ IsPoint(commits[1].selection1) /\ IsPoint(commits[1].selection2))
    => LET src == commits[1].selection1.snap_point
           dst == commits[1].selection2.snap_point
           raw == commits[1].offset
       IN  /\ raw = <<dst[1] - src[1], dst[2] - src[2]>>
           /\ Applied # <<>>
           /\ \A i \in 1..Len(Applied) :
                 /\ SnappedTo(Applied[i][1], raw[1], query.grid_dbu)
                 /\ SnappedTo(Applied[i][2], raw[2], query.grid_dbu)

\* Source (10,10), target (13,17), grid 5: raw (3,7), applied (5,5).
C16_Witness ==
    /\ commits # <<>>
    /\ commits[1].selection1.snap_point = <<10, 10>>
    /\ commits[1].selection2.snap_point = <<13, 17>>
    /\ query.grid_dbu = 5
    /\ commits[1].offset = <<3, 7>>
    /\ Applied = << <<5, 5>> >>

IsHorizontal(e) == e[2] = e[4] /\ e[1] # e[3]

IsVertical(e) == e[1] = e[3] /\ e[2] # e[4]

\* C17: between a point-like and an edge-like feature with a horizontal
\* edge the raw offset is (0, target y - source y), with a vertical edge
\* (target x - source x, 0), where the edge-like feature contributes the y
\* or x of its edge and the point-like one that of its snap point,
\* whichever of the two is the source.
C17_PointAndAxisEdge ==
    commits # <<>>
    => LET src == commits[1].selection1
           dst == commits[1].selection2
           raw == commits[1].offset
       IN  /\ (IsPoint(src) /\ IsEdge(dst) /\ IsHorizontal(dst.edge))
                 => raw = <<0, dst.edge[4] - src.snap_point[2]>>
           /\ (IsPoint(src) /\ IsEdge(dst) /\ IsVertical(dst.edge))
                 => raw = <<dst.edge[3] - src.snap_point[1], 0>>
           /\ (IsEdge(src) /\ IsPoint(dst) /\ IsHorizontal(src.edge))
                 => raw = <<0, dst.snap_point[2] - src.edge[4]>>
           /\ (IsEdge(src) /\ IsPoint(dst) /\ IsVertical(src.edge))
                 => raw = <<dst.snap_point[1] - src.edge[3], 0>>

\* Source point (4,4), target edge (0,10)-(20,10): the raw offset (0,6).
C17_Witness ==
    /\ commits # <<>>
    /\ commits[1].selection1.snap_point = <<4, 4>>
    /\ IsEdge(commits[1].selection2)
    /\ commits[1].selection2.edge = <<0, 10, 20, 10>>
    /\ commits[1].offset = <<0, 6>>
    /\ Applied # <<>>

\* C18: for two edge-like features with vertical edges the raw offset is
\* (target x - source x, 0), with horizontal edges (0, target y - source
\* y), whatever the end points, lengths and directions of the two edges.
C18_ParallelAxisEdges ==
    (commits # <<>> /\ IsEdge(commits[1].selection1) /\ IsEdge(commits[1].selection2))
    => LET e1 == commits[1].selection1.edge
           e2 == commits[1].selection2.edge
           raw == commits[1].offset
       IN  /\ (IsVertical(e1) /\ IsVertical(e2)) => raw = <<e2[3] - e1[3], 0>>
           /\ (IsHorizontal(e1) /\ IsHorizontal(e2)) => raw = <<0, e2[4] - e1[4]>>

\* Source edge on x = 10, target edge on x = 25, of another length and
\* the opposite direction: the raw offset (15,0).
C18_Witness ==
    /\ commits # <<>>
    /\ IsEdge(commits[1].selection1)
    /\ IsEdge(commits[1].selection2)
    /\ commits[1].selection1.edge = <<10, 0, 10, 8>>
    /\ commits[1].selection2.edge = <<25, 20, 25, 4>>
    /\ commits[1].offset = <<15, 0>>
    /\ Applied # <<>>

\* The point p lies on the line through the edge e.
OnLineOf(p, e) == (p[1] - e[1]) * edge_dy(e) - (p[2] - e[2]) * edge_dx(e) = 0

Moved(p, by) == <<p[1] + by[1], p[2] + by[2]>>

\* C19: whenever commit_align does not reject the pair, the raw offset
\* aligns the source with the target: moved by it, the source's snap point
\* is the target's snap point or lies on the line of the target's edge, or
\* the line of the source's edge passes through the target's snap point or
\* is the line of the target's edge; for edges of every orientation.
C19_OffsetAligns ==
    (commits # <<>> /\ commits[1].offset # None)
    => LET src == commits[1].selection1
           dst == commits[1].selection2
           raw == commits[1].offset
           back == <<-raw[1], -raw[2]>>
       IN  /\ (IsPoint(src) /\ IsPoint(dst)) => Moved(src.snap_point, raw) = dst.snap_point
           /\ (IsPoint(src) /\ IsEdge(dst)) => OnLineOf(Moved(src.snap_point, raw), dst.edge)
           /\ (IsEdge(src) /\ IsPoint(dst)) => OnLineOf(Moved(dst.snap_point, back), src.edge)
           /\ (IsEdge(src) /\ IsEdge(dst)) => OnLineOf(Moved(p1(src.edge), raw), dst.edge)

IsDiagonal(e) == e[1] # e[3] /\ e[2] # e[4]

\* A point-like and an edge-like feature, the edge neither horizontal nor
\* vertical.
DiagonalMixed(c) ==
    \/ (IsPoint(c.selection1) /\ IsEdge(c.selection2) /\ IsDiagonal(c.selection2.edge))
    \/ (IsEdge(c.selection1) /\ IsPoint(c.selection2) /\ IsDiagonal(c.selection1.edge))

\* C23: for a point-like and an edge-like feature with a diagonal edge
\* commit_align computes the offset (0,0) without a warning, begins and
\* commits one transaction, transforms every transformee by (0,0), and
\* the tool ends deactivated as after any alignment.
C23_DiagonalMixedIsIdentity ==
    (commits # <<>> /\ DiagonalMixed(commits[1]))
    => /\ commits[1].offset = <<0, 0>>
       /\ CallsOf("warning") = <<>>
       /\ Len(CallsOf("transaction")) = 1
       /\ Len(CallsOf("commit")) = 1
       /\ txOpen = 0
       /\ Transformed = commits[1].transformees
       /\ \A i \in 1..Len(Applied) : Applied[i] = <<0, 0>>
       /\ event.ret = "True"
       /\ state = INACTIVE
       /\ ~active
       /\ selection1 = None
       /\ NoMarkers
       /\ NoPreviews

\* From a diagonal edge to a point that is not on its line.
C23_Witness ==
    /\ commits # <<>>
    /\ IsEdge(commits[1].selection1)
    /\ commits[1].selection1.edge = <<0, 8, 8, 0>>
    /\ commits[1].selection2.snap_point = <<13, 17>>
    /\ Applied = << <<0, 0>> >>

====
